---- MODULE Spec2Model ----
(***************************************************************************)
(* A model of package rangetype (xyproto/rangetype): the expression        *)
(* evaluator eval, the parser NewRange and the engine operations of Range. *)
(*                                                                         *)
(* Strings are sequences of one-character strings.  A float64 is modelled  *)
(* by an integer that counts units of 1/Den, Den a power of two: every     *)
(* value the enumerated inputs produce is a dyadic rational of small       *)
(* magnitude, on which float64 addition, subtraction, negation, comparison *)
(* and truncation are exact.  A threshold (the half step of ValidFloat)    *)
(* counts units of 1/(2*Den), so that halving a step is exact too.         *)
(***************************************************************************)
EXTENDS Integers, Sequences, FiniteSets, TLC

\* ------------------------------------------------------------------ bounds

\* Integer literals of the enumerated left bounds run over -1..MaxLeft.
MaxLeft == 1
\* Integer literals of the enumerated right bounds run over 0..MaxRight.
MaxRight == 3
\* Integer literals of the enumerated steps run over -MaxStep..MaxStep.
MaxStep == 2

\* Take is called with n in 0..MaxTake.
MaxTake == 3
\* eval is given expressions followed by 0..MaxTilde "~".
MaxTilde == 2

\* The visitor of ForEachWithBreak returns true on call 1..MaxBreak, or never.
MaxBreak == 2
\* The stepping loops are followed for at most MaxCalls visitor calls.
MaxCalls == 12
MaxOperand == 2

\* Units per 1.0 (a power of two, so that values are dyadic rationals).
Den == 2 * 2

\* ----------------------------------------------------------------- numbers

\* src: abs
abs(x) == IF x < 0 THEN -x ELSE x

\* src: min
min(a, b) == IF a < b THEN a ELSE b

\* src: max
max(a, b) == IF a > b THEN a ELSE b

\* Go's conversion int(x) followed by float64(...): truncation toward zero,
\* on a value in units.
TruncFloat(x) == IF x < 0 THEN -((-x) \div Den) * Den ELSE (x \div Den) * Den

\* int(x) as an integer (not in units).
IntOf(x) == IF x < 0 THEN -((-x) \div Den) ELSE x \div Den

RECURSIVE IntPow(_, _)
IntPow(a, n) == IF n = 0 THEN 1 ELSE a * IntPow(a, n - 1)

\* math.Pow(a, b) on units, for the exponents the enumerated inputs use: b a
\* non-negative integer.  a^n = (a_units)^n / Den^(n-1) in units.
Pow(a, b) ==
    LET n == b \div Den
    IN  IF n = 0 THEN Den ELSE IntPow(a, n) \div IntPow(Den, n - 1)

\* ----------------------------------------------------------------- strings

Digits == <<"0", "1", "2", "3", "4", "5", "6", "7", "8", "9">>

IsDigit(c) == \E i \in 1..10 : Digits[i] = c

DigitVal(c) == (CHOOSE i \in 1..10 : Digits[i] = c) - 1

MatchAt(s, sep, i) ==
    /\ i + Len(sep) - 1 <= Len(s)
    /\ SubSeq(s, i, i + Len(sep) - 1) = sep

\* strings.Index, 1-based; 0 when sep does not occur.
Index(s, sep) ==
    IF \E i \in 1..Len(s) : MatchAt(s, sep, i)
    THEN CHOOSE i \in 1..Len(s) :
            MatchAt(s, sep, i) /\ \A j \in 1..(i - 1) : ~MatchAt(s, sep, j)
    ELSE 0

Contains(s, sep) == Index(s, sep) # 0

\* strings.Count: the number of non-overlapping occurrences.
RECURSIVE Count(_, _)
Count(s, sep) ==
    LET i == Index(s, sep)
    IN  IF i = 0 THEN 0
        ELSE 1 + Count(SubSeq(s, i + Len(sep), Len(s)), sep)

\* strings.SplitN: at most n substrings, the last one the unsplit remainder.
RECURSIVE SplitN(_, _, _)
SplitN(s, sep, n) ==
    LET i == Index(s, sep)
    IN  IF n <= 1 \/ i = 0 THEN <<s>>
        ELSE <<SubSeq(s, 1, i - 1)>>
                 \o SplitN(SubSeq(s, i + Len(sep), Len(s)), sep, n - 1)

HasPrefix(s, p) == MatchAt(s, p, 1)

HasSuffix(s, p) == Len(p) <= Len(s) /\ MatchAt(s, p, Len(s) - Len(p) + 1)

IsSpace(c) == c \in {" ", "\t", "\n"}

RECURSIVE TrimLeft(_)
TrimLeft(s) == IF s # <<>> /\ IsSpace(Head(s)) THEN TrimLeft(Tail(s)) ELSE s

RECURSIVE TrimRight(_)
TrimRight(s) ==
    IF s # <<>> /\ IsSpace(s[Len(s)])
    THEN TrimRight(SubSeq(s, 1, Len(s) - 1)) ELSE s

TrimSpace(s) == TrimRight(TrimLeft(s))

\* src: reverse
reverse(s) == [i \in 1..Len(s) |-> s[Len(s) + 1 - i]]

RECURSIVE DigitsVal(_)
DigitsVal(s) ==
    IF s = <<>> THEN 0
    ELSE 10 * DigitsVal(SubSeq(s, 1, Len(s) - 1)) + DigitVal(s[Len(s)])

\* strconv.ParseFloat(s, 64) on the model's alphabet (digits and "."; a sign,
\* an exponent or a blank never reaches it unsplit): digits with at most one
\* ".", at least one digit.  The value in units; the enumerated literals are
\* multiples of 1/Den, so the division is exact.
ParseFloat(s) ==
    LET dot  == Index(s, <<".">>)
        ip   == IF dot = 0 THEN s ELSE SubSeq(s, 1, dot - 1)
        fp   == IF dot = 0 THEN <<>> ELSE SubSeq(s, dot + 1, Len(s))
        ok   == /\ \A i \in 1..Len(ip) : IsDigit(ip[i])
                /\ \A i \in 1..Len(fp) : IsDigit(fp[i])
                /\ Len(ip) + Len(fp) > 0
    IN  IF ok
        THEN [err |-> "",
              val |-> DigitsVal(ip) * Den
                        + (DigitsVal(fp) * Den) \div IntPow(10, Len(fp))]
        ELSE [err |-> "INVALID VALUE", val |-> 0]

\* src: rsplit.  elems[1] does not exist when sep does not occur in s: the
\* index panics.
rsplit(s, sep) ==
    LET elems == SplitN(reverse(s), sep, 2)
    IN  IF Len(elems) < 2
        THEN [panic |-> TRUE, left |-> <<>>, right |-> <<>>]
        ELSE [panic |-> FALSE, left |-> reverse(elems[2]),
              right |-> reverse(elems[1])]

\* --------------------------------------------------------------- evaluator

Ok(v) == [err |-> "", val |-> v]

Err(e) == [err |-> e, val |-> 0]

\* A variant of SubtractOne that subtracts 2.
SubtractTwo(v) == v - 2 * Den

\* The "~" of eval: v - 1.
SubtractOne(v) == v - 1 * Den

\* src: eval.  The result is [err, val]: err = "" is Go's nil error, and
\* err = "panic" a run-time panic (rsplit's index out of range).
\* A variant of IsPower that lets a "+" in the expression go first.
IsPowerAfterPlus(exp) ==
    Count(exp, <<"*", "*">>) > 0 /\ Count(exp, <<"+">>) = 0

\* src: eval, 'if strings.Count(exp, "**") > 0', the first of the operator
\* branches.
IsPower(exp) == Count(exp, <<"*", "*">>) > 0

RECURSIVE eval(_, _)
eval(exp, ada) ==
    IF TrimSpace(exp) = <<>> THEN Ok(0)
    ELSE IF HasPrefix(exp, <<"-">>) THEN
        LET v == eval(Tail(exp), ada)
        IN  IF v.err # "" THEN v ELSE Ok(-v.val)
    ELSE IF ada /\ TrimSpace(exp) = <<"-">> THEN Ok(-1 * Den)
    ELSE IF ada /\ Count(exp, <<"(">>) # Count(exp, <<")">>) THEN
        Err("Unbalanced expression")
    ELSE IF ada /\ Count(exp, <<"(">>) > 0 /\ Count(exp, <<")">>) > 0 THEN
        LET elems == SplitN(exp, <<"(">>, 2)
            left  == elems[1]
            cr    == rsplit(elems[2], <<")">>)
        IN  IF cr.panic THEN Err("panic")
            ELSE LET centerResult == eval(cr.left, ada)
                     leftResult   == eval(left, ada)
                     rightResult  == eval(cr.right, ada)
                 IN  IF centerResult.err # "" THEN Err(centerResult.err)
                     ELSE IF leftResult.err # "" THEN Err(leftResult.err)
                     ELSE IF rightResult.err # "" THEN Err(rightResult.err)
                     ELSE Ok(leftResult.val + centerResult.val
                                 + rightResult.val)
    ELSE IF ~ada /\ HasSuffix(exp, <<"~">>) THEN
        LET v == eval(SubSeq(exp, 1, Len(exp) - 1), ada)
        IN  IF v.err # "" THEN v ELSE Ok(SubtractOne(v.val))
    ELSE IF IsPower(exp) THEN
        LET elements == SplitN(exp, <<"*", "*">>, 2)
            a == eval(elements[1], ada)
            b == eval(elements[2], ada)
        IN  IF a.err # "" THEN Err(IF a.err = "panic" THEN "panic"
                                   ELSE "INVALID VALUE")
            ELSE IF b.err # "" THEN Err(IF b.err = "panic" THEN "panic"
                                        ELSE "INVALID VALUE")
            ELSE Ok(Pow(a.val, b.val))
    ELSE IF Count(exp, <<"+">>) > 0 THEN
        LET elements == SplitN(exp, <<"+">>, 2)
            a == eval(elements[1], ada)
            b == eval(elements[2], ada)
        IN  IF a.err # "" THEN Err(IF a.err = "panic" THEN "panic"
                                   ELSE "INVALID VALUE")
            ELSE IF b.err # "" THEN Err(IF b.err = "panic" THEN "panic"
                                        ELSE "INVALID VALUE")
            ELSE Ok(a.val + b.val)
    ELSE IF Count(exp, <<"-">>) > 0 THEN
        LET elements == SplitN(exp, <<"-">>, 2)
            a == eval(elements[1], ada)
            b == eval(elements[2], ada)
        IN  IF a.err # "" THEN Err(IF a.err = "panic" THEN "panic"
                                   ELSE "INVALID VALUE")
            ELSE IF b.err # "" THEN Err(IF b.err = "panic" THEN "panic"
                                        ELSE "INVALID VALUE")
            ELSE Ok(a.val - b.val)
    ELSE ParseFloat(exp)

\* ------------------------------------------------------------------ parser

\* The flags of Range.rangeType: a bit set, modelled as a set of flag names
\* (| is \cup, &^ is \, and "& flag != 0" is membership).
RANGE_MISSING == {}

RANGE_EXCLUDE_START == {"EXCLUDE_START"}

RANGE_INCLUDE_START == {"INCLUDE_START"}

RANGE_EXCLUDE_STOP == {"EXCLUDE_STOP"}

RANGE_INCLUDE_STOP == {"INCLUDE_STOP"}

IsSet(rangeType, flag) == rangeType \cap flag # {}

\* The " step " suffix: [rangeExpression, step].
SplitStep(rangeExpression) ==
    IF Contains(rangeExpression, <<" ", "s", "t", "e", "p", " ">>)
    THEN LET elements == SplitN(rangeExpression,
                                <<" ", "s", "t", "e", "p", " ">>, 2)
         IN  [rangeExpression |-> elements[1], step |-> elements[2]]
    ELSE [rangeExpression |-> rangeExpression, step |-> <<>>]

\* One character of the marker scan: the flags and the contents after it.
ScanChar(st, c, ada) ==
    IF c \in {" ", "\t", "\n"} THEN st
    ELSE IF c = "[" THEN
        [st EXCEPT !.rangeType =
            (st.rangeType \cup RANGE_INCLUDE_START) \ RANGE_EXCLUDE_START]
    ELSE IF c = "]" THEN
        [st EXCEPT !.rangeType =
            (st.rangeType \cup RANGE_INCLUDE_STOP) \ RANGE_EXCLUDE_STOP]
    ELSE IF c = "(" THEN
        IF ada THEN [st EXCEPT !.contents = Append(st.contents, c)]
        ELSE [st EXCEPT !.rangeType =
                (st.rangeType \cup RANGE_EXCLUDE_START) \ RANGE_INCLUDE_START]
    ELSE IF c = ")" THEN
        IF ada THEN [st EXCEPT !.contents = Append(st.contents, c)]
        ELSE [st EXCEPT !.rangeType =
                (st.rangeType \cup RANGE_EXCLUDE_STOP) \ RANGE_INCLUDE_STOP]
    ELSE [st EXCEPT !.contents = Append(st.contents, c)]

\* The marker scan of NewRange: the loop over the characters.
RECURSIVE ScanMarkers(_, _, _)
ScanMarkers(st, s, ada) ==
    IF s = <<>> THEN st
    ELSE ScanMarkers(ScanChar(st, Head(s), ada), Tail(s), ada)

\* The interval style's defaults (".."): inclusive unless set exclusive.
IntervalDefaults(rangeType) ==
    LET t1 == IF ~IsSet(rangeType, RANGE_EXCLUDE_START)
              THEN (rangeType \cup RANGE_INCLUDE_START) \ RANGE_EXCLUDE_START
              ELSE rangeType
    IN  IF ~IsSet(t1, RANGE_EXCLUDE_STOP)
        THEN (t1 \cup RANGE_INCLUDE_STOP) \ RANGE_EXCLUDE_STOP
        ELSE t1

\* The math style (","): no default is applied.
MathDefaults(rangeType) == rangeType

\* A variant of SliceDefaults whose stop defaults to inclusive.
SliceDefaultsStopInclusive(rangeType) ==
    LET t1 == IF ~IsSet(rangeType, RANGE_INCLUDE_START)
              THEN (rangeType \cup RANGE_INCLUDE_START) \ RANGE_EXCLUDE_START
              ELSE rangeType
    IN  IF ~IsSet(t1, RANGE_EXCLUDE_STOP)
        THEN (t1 \cup RANGE_INCLUDE_STOP) \ RANGE_EXCLUDE_STOP
        ELSE t1

\* The slice style's defaults (":"): start inclusive unless the inclusive
\* start flag is set already, stop exclusive unless the inclusive stop flag is.
SliceDefaults(rangeType) ==
    LET t1 == IF ~IsSet(rangeType, RANGE_INCLUDE_START)
              THEN (rangeType \cup RANGE_INCLUDE_START) \ RANGE_EXCLUDE_START
              ELSE rangeType
    IN  IF ~IsSet(t1, RANGE_INCLUDE_STOP)
        THEN (t1 \cup RANGE_EXCLUDE_STOP) \ RANGE_INCLUDE_STOP
        ELSE t1

\* A variant of Classify that takes any expression with at least one ".." for
\* interval style.
ClassifyAnyInterval(contents, rangeType, step) ==
    IF Count(contents, <<".", ".">>) >= 1 THEN
        LET elements == SplitN(contents, <<".", ".">>, 2)
        IN  [style |-> "interval", left |-> TrimSpace(elements[1]),
             right |-> TrimSpace(elements[2]), step |-> step,
             rangeType |-> IntervalDefaults(rangeType)]
    ELSE IF Count(contents, <<",">>) = 1 THEN
        LET elements == SplitN(contents, <<",">>, 2)
        IN  [style |-> "math", left |-> elements[1], right |-> elements[2],
             step |-> step, rangeType |-> MathDefaults(rangeType)]
    ELSE IF Count(contents, <<":">>) = 1 THEN
        LET elements == SplitN(contents, <<":">>, 2)
        IN  [style |-> "slice", left |-> elements[1], right |-> elements[2],
             step |-> step, rangeType |-> SliceDefaults(rangeType)]
    ELSE IF Count(contents, <<":">>) = 2 THEN
        LET elements == SplitN(contents, <<":">>, 3)
        IN  [style |-> "slice3", left |-> elements[1], right |-> elements[2],
             step |-> IF step = <<>> THEN elements[3] ELSE step,
             rangeType |-> SliceDefaults(rangeType)]
    ELSE [style |-> "syntax", left |-> <<>>, right |-> <<>>, step |-> step,
          rangeType |-> rangeType]

\* A variant of Classify in which the third field of a two-colon expression
\* replaces the step of a " step " suffix.
ClassifyThirdFieldWins(contents, rangeType, step) ==
    IF Count(contents, <<".", ".">>) = 1 THEN
        LET elements == SplitN(contents, <<".", ".">>, 2)
        IN  [style |-> "interval", left |-> TrimSpace(elements[1]),
             right |-> TrimSpace(elements[2]), step |-> step,
             rangeType |-> IntervalDefaults(rangeType)]
    ELSE IF Count(contents, <<",">>) = 1 THEN
        LET elements == SplitN(contents, <<",">>, 2)
        IN  [style |-> "math", left |-> elements[1], right |-> elements[2],
             step |-> step, rangeType |-> MathDefaults(rangeType)]
    ELSE IF Count(contents, <<":">>) = 1 THEN
        LET elements == SplitN(contents, <<":">>, 2)
        IN  [style |-> "slice", left |-> elements[1], right |-> elements[2],
             step |-> step, rangeType |-> SliceDefaults(rangeType)]
    ELSE IF Count(contents, <<":">>) = 2 THEN
        LET elements == SplitN(contents, <<":">>, 3)
        IN  [style |-> "slice3", left |-> elements[1], right |-> elements[2],
             step |-> elements[3],
             rangeType |-> SliceDefaults(rangeType)]
    ELSE [style |-> "syntax", left |-> <<>>, right |-> <<>>, step |-> step,
          rangeType |-> rangeType]

\* The separator classification of NewRange: the style, the left and right
\* sub-expressions, the step sub-expression and the flags.
Classify(contents, rangeType, step) ==
    IF Count(contents, <<".", ".">>) = 1 THEN
        LET elements == SplitN(contents, <<".", ".">>, 2)
        IN  [style |-> "interval", left |-> TrimSpace(elements[1]),
             right |-> TrimSpace(elements[2]), step |-> step,
             rangeType |-> IntervalDefaults(rangeType)]
    ELSE IF Count(contents, <<",">>) = 1 THEN
        LET elements == SplitN(contents, <<",">>, 2)
        IN  [style |-> "math", left |-> elements[1], right |-> elements[2],
             step |-> step, rangeType |-> MathDefaults(rangeType)]
    ELSE IF Count(contents, <<":">>) = 1 THEN
        LET elements == SplitN(contents, <<":">>, 2)
        IN  [style |-> "slice", left |-> elements[1], right |-> elements[2],
             step |-> step, rangeType |-> SliceDefaults(rangeType)]
    ELSE IF Count(contents, <<":">>) = 2 THEN
        LET elements == SplitN(contents, <<":">>, 3)
        IN  [style |-> "slice3", left |-> elements[1], right |-> elements[2],
             step |-> IF step = <<>> THEN elements[3] ELSE step,
             rangeType |-> SliceDefaults(rangeType)]
    ELSE [style |-> "syntax", left |-> <<>>, right |-> <<>>, step |-> step,
          rangeType |-> rangeType]

\* A nil *Range.
NoRange == [rangeType |-> {}, from |-> 0, to |-> 0, step |-> 0]

Failed(e) == [err |-> e, nil |-> TRUE, r |-> NoRange]

\* A variant of NewRange that evaluates an empty right side (to 0) instead of
\* returning ErrMissingRange.
NewRangeEmptyRightIsZero(rangeExpression, ada) ==
    LET ss == SplitStep(rangeExpression)
        sc == ScanMarkers([rangeType |-> RANGE_MISSING, contents |-> <<>>],
                          ss.rangeExpression, ada)
        cl == Classify(sc.contents, sc.rangeType, ss.step)
        from == IF cl.left = <<>> THEN Ok(0) ELSE eval(cl.left, ada)
        to   == eval(cl.right, ada)
        step == IF cl.step # <<>> THEN eval(cl.step, ada) ELSE Ok(1 * Den)
    IN  IF cl.style = "syntax" THEN Failed("INVALID RANGE SYNTAX")
        ELSE IF from.err = "panic" THEN Failed("panic")
        ELSE IF from.err # "" THEN Failed("INVALID RANGE VALUE")
        ELSE IF to.err = "panic" THEN Failed("panic")
        ELSE IF to.err # "" THEN Failed("INVALID RANGE VALUE")
        ELSE IF step.err = "panic" THEN Failed("panic")
        ELSE IF step.err # "" THEN Failed("INVALID STEP SIZE")
        ELSE [err |-> "", nil |-> FALSE,
              r |-> [rangeType |-> cl.rangeType, from |-> from.val,
                     to |-> to.val, step |-> step.val]]

\* src: NewRange.  [err, nil, r]: err = "" is the nil error, nil says that the
\* returned *Range is nil, and err = "panic" is a run-time panic of eval.
NewRange(rangeExpression, ada) ==
    LET ss == SplitStep(rangeExpression)
        sc == ScanMarkers([rangeType |-> RANGE_MISSING, contents |-> <<>>],
                          ss.rangeExpression, ada)
        cl == Classify(sc.contents, sc.rangeType, ss.step)
        from == IF cl.left = <<>> THEN Ok(0) ELSE eval(cl.left, ada)
        to   == eval(cl.right, ada)
        step == IF cl.step # <<>> THEN eval(cl.step, ada) ELSE Ok(1 * Den)
    IN  IF cl.style = "syntax" THEN Failed("INVALID RANGE SYNTAX")
        ELSE IF from.err = "panic" THEN Failed("panic")
        ELSE IF from.err # "" THEN Failed("INVALID RANGE VALUE")
        ELSE IF cl.right = <<>> THEN Failed("MISSING RANGE VALUES")
        ELSE IF to.err = "panic" THEN Failed("panic")
        ELSE IF to.err # "" THEN Failed("INVALID RANGE VALUE")
        ELSE IF step.err = "panic" THEN Failed("panic")
        ELSE IF step.err # "" THEN Failed("INVALID STEP SIZE")
        ELSE [err |-> "", nil |-> FALSE,
              r |-> [rangeType |-> cl.rangeType, from |-> from.val,
                     to |-> to.val, step |-> step.val]]

\* src: New2
New2(rangeExpression) == NewRange(rangeExpression, FALSE)

\* src: NewAda2
NewAda2(adaRangeType) == NewRange(adaRangeType, TRUE)

\* ------------------------------------------------------------------ engine

\* src: Range.Integer
Integer(r) == abs(r.step) = 1 * Den

\* The stepping loop of ForEach for step > 0 or step < 0: the values visited
\* from cursor x on.
RECURSIVE StepLoop(_, _)
StepLoop(r, x) ==
    IF r.step > 0 THEN
        IF x < r.to /\ x > r.from THEN <<x>> \o StepLoop(r, x + r.step)
        ELSE <<>>
    ELSE IF r.step < 0 THEN
        IF x > r.to /\ x < r.from THEN <<x>> \o StepLoop(r, x + r.step)
        ELSE <<>>
    ELSE <<>>

\* A variant of ForEach that visits the stop value only when stepping came
\* within half a step of it (the check of src/range.go's ForEach).
ForEachStopWhenReached(r) ==
    LET stepped == StepLoop(r, r.from + r.step)
        x == r.from + (Len(stepped) + 1) * r.step
    IN  (IF IsSet(r.rangeType, RANGE_INCLUDE_START) THEN <<r.from>> ELSE <<>>)
            \o stepped
            \o (IF IsSet(r.rangeType, RANGE_INCLUDE_STOP)
                   /\ 2 * abs(x - r.to) < abs(r.step)
                THEN <<r.to>> ELSE <<>>)

\* src: Range.ForEach.  The sequence of values the visitor f is called with.
ForEach(r) ==
    (IF IsSet(r.rangeType, RANGE_INCLUDE_START) THEN <<r.from>> ELSE <<>>)
        \o StepLoop(r, r.from + r.step)
        \o (IF IsSet(r.rangeType, RANGE_INCLUDE_STOP) THEN <<r.to>> ELSE <<>>)

\* src: Range.All
All(r) == ForEach(r)

\* The stepping loop of ForN from cursor x on, with counter calls of f made
\* so far: the values visited, and whether ForN returned from inside the loop
\* (the counter is compared with n after f has been called).
RECURSIVE StepLoopN(_, _, _, _)
StepLoopN(r, x, counter, n) ==
    IF \/ r.step > 0 /\ x < r.to /\ x > r.from
       \/ r.step < 0 /\ x > r.to /\ x < r.from
    THEN IF counter + 1 >= n THEN [seq |-> <<x>>, returned |-> TRUE]
         ELSE LET rest == StepLoopN(r, x + r.step, counter + 1, n)
              IN  [seq |-> <<x>> \o rest.seq, returned |-> rest.returned]
    ELSE [seq |-> <<>>, returned |-> FALSE]

\* src: Range.ForN.  The sequence of values f is called with.
ForN(r, n) ==
    LET start == IsSet(r.rangeType, RANGE_INCLUDE_START)
        counter == IF start THEN 1 ELSE 0
        loop == StepLoopN(r, r.from + r.step, counter, n)
    IN  IF start /\ counter >= n THEN <<r.from>>
        ELSE (IF start THEN <<r.from>> ELSE <<>>)
                \o loop.seq
                \o (IF ~loop.returned /\ IsSet(r.rangeType, RANGE_INCLUDE_STOP)
                    THEN <<r.to>> ELSE <<>>)

\* src: Range.Take
Take(r, n) == ForN(r, n)

\* The visitor of Slice2 applied to the iterated values xs in turn, selection
\* being what was appended so far: pos is int(x), and nums[pos] is read
\* whenever pos < len(nums).  A negative pos is an index out of range: a
\* run-time panic, which ends the call.
RECURSIVE Selection(_, _, _)
Selection(nums, xs, selection) ==
    IF xs = <<>> THEN [panic |-> FALSE, selection |-> selection]
    ELSE LET pos == IntOf(Head(xs))
         IN  IF pos < Len(nums) THEN
                 IF pos < 0 THEN [panic |-> TRUE, selection |-> <<>>]
                 ELSE Selection(nums, Tail(xs),
                                Append(selection, nums[pos + 1]))
             ELSE Selection(nums, Tail(xs), selection)

\* Slice2 after the parse p: the error return, or the visit of ForEach.
SliceWith(nums, p) ==
    IF p.err = "panic" THEN [err |-> "", panic |-> TRUE, selection |-> <<>>]
    ELSE IF p.err # "" THEN
        [err |-> p.err, panic |-> FALSE, selection |-> <<>>]
    ELSE [err |-> "", panic |-> Selection(nums, ForEach(p.r), <<>>).panic,
          selection |-> Selection(nums, ForEach(p.r), <<>>).selection]

\* src: Slice2.  [err, panic, selection]: panic says that the call ended in a
\* run-time panic and returned nothing.
Slice2(nums, expression) == SliceWith(nums, New2(expression))

\* The decimal digits of a natural number.
RECURSIVE FormatNat(_)
FormatNat(n) ==
    IF n < 10 THEN <<Digits[n + 1]>>
    ELSE FormatNat(n \div 10) \o <<Digits[(n % 10) + 1]>>

\* fmt's %v of a float64 in units: the shortest decimal that reads back as
\* the value, which for a multiple of 1/Den of small magnitude is the integer
\* part and, when the fraction is not zero, a point and its one or two
\* digits.  (No enumerated input produces a negative zero.)
FormatFloat(x) ==
    LET m == abs(x)
        f == m % Den
        d1 == (f * 10) \div Den
        d2 == (((f * 10) % Den) * 10) \div Den
    IN  (IF x < 0 THEN <<"-">> ELSE <<>>)
            \o FormatNat(m \div Den)
            \o (IF f = 0 THEN <<>>
                ELSE IF d2 = 0 THEN <<".", Digits[d1 + 1]>>
                ELSE <<".", Digits[d1 + 1], Digits[d2 + 1]>>)

\* src: Range.String
String(r) ==
    (IF IsSet(r.rangeType, RANGE_EXCLUDE_START) THEN <<"(">> ELSE <<"[">>)
        \o FormatFloat(r.from) \o <<",", " ">> \o FormatFloat(r.to)
        \o (IF IsSet(r.rangeType, RANGE_EXCLUDE_STOP) THEN <<")">> ELSE <<"]">>)
        \o (IF Integer(r)
            THEN <<",", " ", "i", "n", "t", "e", "g", "e", "r", " ",
                   "r", "a", "n", "g", "e">>
            ELSE <<",", " ", "f", "l", "o", "a", "t", " ", "r", "a", "n", "g",
                   "e", " ", "w", "i", "t", "h", " ", "s", "t", "e", "p", " ">>
                    \o FormatFloat(r.step))

\* src: almostEqual.  a, b in units, threshold in half units.
almostEqual(a, b, threshold) == 2 * abs(a - b) < threshold

\* A variant of FirstMatch that returns the value asked for, not the value of
\* the range.
RECURSIVE FirstMatchQueried(_, _, _)
FirstMatchQueried(xs, x, threshold) ==
    IF xs = <<>> THEN [found |-> FALSE, value |-> -1 * Den]
    ELSE IF almostEqual(x, Head(xs), threshold)
         THEN [found |-> TRUE, value |-> x]
         ELSE FirstMatchQueried(Tail(xs), x, threshold)

\* src: Range.ForEachWithBreak as Find uses it: the first value of the
\* iteration the visitor returns true for, as [found, value].
RECURSIVE FirstMatch(_, _, _)
FirstMatch(xs, x, threshold) ==
    IF xs = <<>> THEN [found |-> FALSE, value |-> -1 * Den]
    ELSE IF almostEqual(x, Head(xs), threshold)
         THEN [found |-> TRUE, value |-> Head(xs)]
         ELSE FirstMatch(Tail(xs), x, threshold)

\* src: Range.Find.  ForEachWithBreak visits the values of ForEach in order
\* and stops at the first the visitor returns true for.
Find(r, x, threshold) == FirstMatch(ForEach(r), x, threshold)

\* A variant of HasIntegerPath without the check that x is integral.
HasIntegerPathAnyFraction(r, x) ==
    LET a == min(r.from, r.to)
        b == max(r.from, r.to)
    IN  IF ~Integer(r) THEN "continue"
        ELSE IF TruncFloat(r.from) = r.from /\ TruncFloat(r.to) = r.to
                /\ x > a /\ a < b THEN "accept"
        ELSE "continue"

\* The integer fast path of Has: "reject" (x is not integral), "accept" (the
\* bounds are integral and x lies above the lower one) or "continue".
HasIntegerPath(r, x) ==
    LET a == min(r.from, r.to)
        b == max(r.from, r.to)
    IN  IF ~Integer(r) THEN "continue"
        ELSE IF TruncFloat(x) # x THEN "reject"
        ELSE IF TruncFloat(r.from) = r.from /\ TruncFloat(r.to) = r.to
                /\ x > a /\ a < b THEN "accept"
        ELSE "continue"

\* The fractional-step fast path of Has.
HasFractionPath(r, x, threshold) ==
    /\ r.step > 0
    /\ r.step < 1 * Den
    /\ LET translated == x - r.from
           fractionalPart == translated - TruncFloat(translated)
       IN  almostEqual(fractionalPart, r.step, threshold)

\* src: Range.Has
Has(r, x, threshold) ==
    LET a == min(r.from, r.to)
        b == max(r.from, r.to)
    IN  IF x < a \/ x > b THEN FALSE
        ELSE IF IsSet(r.rangeType, RANGE_EXCLUDE_START)
                /\ almostEqual(x, r.from, threshold) THEN FALSE
        ELSE IF IsSet(r.rangeType, RANGE_EXCLUDE_STOP)
                /\ almostEqual(x, r.to, threshold) THEN FALSE
        ELSE IF HasIntegerPath(r, x) = "reject" THEN FALSE
        ELSE IF HasIntegerPath(r, x) = "accept" THEN TRUE
        ELSE IF HasFractionPath(r, x, threshold) THEN TRUE
        ELSE Find(r, x, threshold).found

\* The half step of ValidFloat, r.step / 2.0, in half units.
HalfStep(r) == r.step

\* src: Range.ValidFloat
ValidFloat(r, x) == Has(r, x, HalfStep(r))

\* src: Range.Valid
Valid(r, x) == ValidFloat(r, x)

\* src: Range.Len.  The closed form for step 1 (uint of the span), else the
\* count of the values iterated.
RangeLen(r) ==
    IF r.step = 1 * Den
    THEN IntOf(max(r.from, r.to) - min(r.from, r.to))
    ELSE Len(ForEach(r))

\* math.Ceil(math.Log2(n)) for an integer n >= 1: the least k with 2^k >= n.
RECURSIVE CeilLog2From(_, _)
CeilLog2From(n, k) == IF IntPow(2, k) >= n THEN k ELSE CeilLog2From(n, k + 1)

CeilLog2(n) == CeilLog2From(n, 0)

\* int(-Inf), the conversion Bits makes of a range of length 0: Go leaves the
\* result implementation-dependent.  The builds known produce the least int
\* (here of 32 bits; -2^63 on a 64-bit build is as negative).
MinInt == -2147483647 - 1

IntOfNegInf == {MinInt}

\* src: Range.Bits.  The set of results a build can give.
Bits(r) ==
    IF RangeLen(r) = 0 THEN IntOfNegInf ELSE {CeilLog2(RangeLen(r))}

RECURSIVE SumSeq(_)
SumSeq(xs) == IF xs = <<>> THEN 0 ELSE Head(xs) + SumSeq(Tail(xs))

\* src: Range.Sum
Sum(r) == SumSeq(ForEach(r))

\* strconv.FormatFloat(x, 'f', digits, 64) of a value in units, for digits 0
\* (the nearest integer, a tie going to the even one) and digits 2 (exact for
\* multiples of 1/Den).  A negative x keeps its sign, "-0" included.
FormatFixed(x, digits) ==
    LET m == abs(x) \div Den
        f == abs(x) % Den
        up == 2 * f > Den \/ (2 * f = Den /\ m % 2 = 1)
        hundredths == (f * 100) \div Den
    IN  (IF x < 0 THEN <<"-">> ELSE <<>>)
            \o (IF digits = 0 THEN FormatNat(IF up THEN m + 1 ELSE m)
                ELSE FormatNat(m)
                        \o <<".", Digits[(hundredths \div 10) + 1],
                             Digits[(hundredths % 10) + 1]>>)

\* The buffer of Join: every value followed by sep.
RECURSIVE JoinBuf(_, _, _)
JoinBuf(xs, sep, digits) ==
    IF xs = <<>> THEN <<>>
    ELSE FormatFixed(Head(xs), digits) \o sep
            \o JoinBuf(Tail(xs), sep, digits)

JoinOf(buf, sep) ==
    IF Len(buf) = 0 THEN <<>> ELSE SubSeq(buf, 1, Len(buf) - Len(sep))

\* src: Range.Join
Join(r, sep, digits) == JoinOf(JoinBuf(ForEach(r), sep, digits), sep)

\* A variant of InLoop that tests the cursor of the turn before.
InLoopLate(r, x) ==
    \/ r.step > 0 /\ x - r.step < r.to /\ x > r.from
    \/ r.step < 0 /\ x - r.step > r.to /\ x < r.from

\* A variant of InLoop that steps until the cursor meets the stop value.
InLoopUntilStop(r, x) == x # r.to

\* The condition of the stepping loops of ForEach, ForEachWithBreak and ForN,
\* on cursor x: "x < r.to && x > r.from" for a positive step,
\* "x > r.to && x < r.from" for a negative one, and no loop for step 0.
InLoop(r, x) ==
    \/ r.step > 0 /\ x < r.to /\ x > r.from
    \/ r.step < 0 /\ x > r.to /\ x < r.from

\* A variant of Stops in which ForEachWithBreak ignores what its visitor
\* returns.
StopsOnlyForN(name, n, visited) == name = "ForN" /\ Len(visited) >= n

\* Whether the loop returns after the visitor call that made visited: never
\* in ForEach; in ForEachWithBreak when the visitor returned true, which it
\* does on its n-th call (never for n = 0); in ForN when counter >= n.
Stops(name, n, visited) ==
    \/ name = "ForEachWithBreak" /\ Len(visited) = n
    \/ name = "ForN" /\ Len(visited) >= n

\* ------------------------------------------------------------------ inputs

\* The decimal literal of an integer -99..99.
Lit(n) ==
    LET m == abs(n)
        d == IF m < 10 THEN <<Digits[m + 1]>>
             ELSE <<Digits[(m \div 10) + 1], Digits[(m % 10) + 1]>>
    IN  IF n < 0 THEN <<"-">> \o d ELSE d

Opens == {<<>>, <<"[">>, <<"(">>}

Closes == {<<>>, <<"]">>, <<")">>}

Seps == {<<".", ".">>, <<",">>, <<":">>}

LeftExprs == {<<>>} \cup {Lit(n) : n \in -1..MaxLeft}

RightExprs ==
    {<<>>} \cup {Lit(n) : n \in 0..MaxRight}
        \cup {<<"2", "*", "*", "2", "~">>, <<"2", ".", "5">>}

StepExprs ==
    {Lit(n) : n \in -MaxStep..MaxStep}
        \cup {<<"0", ".", "5">>, <<"-", "0", ".", "5">>}

StepSuffix(s) == <<" ", "s", "t", "e", "p", " ">> \o s

\* The range expressions given to New2: every bracket, bound and separator
\* combination, without a step, with a " step " suffix (interval and math
\* style) and with a third field (slice style).
Body(o, l, sp, rt, c) == o \o l \o sp \o rt \o c

BaseExprs ==
    {Body(o, l, sp, rt, c) :
        o \in Opens, l \in LeftExprs, sp \in Seps, rt \in RightExprs,
        c \in Closes}

SuffixExprs ==
    {Body(o, l, sp, rt, c) \o StepSuffix(st) :
        o \in Opens, l \in LeftExprs, sp \in {<<".", ".">>, <<",">>},
        rt \in RightExprs, c \in Closes, st \in StepExprs}

ThirdExprs ==
    {o \o l \o <<":">> \o rt \o <<":">> \o st \o c :
        o \in Opens, l \in LeftExprs, rt \in RightExprs, st \in StepExprs,
        c \in Closes}

\* Expressions of the README and of the tests.
NotableExprs ==
    {<<"(", "0", ":", "6", ":", "2", ")">>,
     <<"[", "1", ":", "6", ":", "2", "]">>,
     <<"1", ":", "6", ":", "2">>,
     <<"[", "4", ":", "2", ":", "-", "3", "]">>,
     <<"[", "4", ":", "2", ":", "-", "3">>}

\* Expressions with no separator, with several separators, and with an
\* empty or doubled step.
EdgeExprs ==
    {<<>>,
     <<"1">>,
     <<"[", "1", "]">>,
     <<"1", " ", "s", "t", "e", "p", " ", "2">>,
     <<"1", ".", ".", "2", ".", ".", "3">>,
     <<"1", ".", ".", ".", ".", "3">>,
     <<"1", ".", ".", ".", "5">>,
     <<"1", ",", "2", ",", "3">>,
     <<"1", ":", "2", ":", "3", ":", "4">>,
     <<"1", ".", ".", "2", ",", "3">>,
     <<"1", ".", ".", "2", ":", "3">>,
     <<"1", ",", "2", ":", "3">>,
     <<"1", ":", "2", ",", "3">>,
     <<"1", ":", "2", ".", ".", "3">>,
     <<"1", ":", "2", ":", "3", ",", "4">>,
     <<"0", ".", ".", "5", "-", "2">>,
     <<"1", ":", "3", ":", "2", " ", "s", "t", "e", "p", " ", "1">>,
     <<"0", ":", "3", ":", "1", " ", "s", "t", "e", "p", " ", "2">>,
     <<"1", ".", ".", "3", " ", "s", "t", "e", "p", " ">>,
     <<"1", ".", ".", "3", " ", "s", "t", "e", "p", " ", " ">>,
     <<"0", ":", "3", ":", "2", " ", "s", "t", "e", "p", " ">>,
     <<"0", ":", "3", ":">>,
     <<"0", ":", ":", "2">>}

\* Expressions with two markers on each side, in every order and style.
MarkerExprs ==
    {<<m1, m2, "1">> \o sp \o <<"3", m3, m4>> :
        m1 \in {"[", "("}, m2 \in {"[", "("}, sp \in Seps,
        m3 \in {"]", ")"}, m4 \in {"]", ")"}}

Exprs ==
    BaseExprs \cup SuffixExprs \cup ThirdExprs \cup NotableExprs
        \cup EdgeExprs \cup MarkerExprs

\* The range expressions given to NewAda2.
AdaExprs ==
    {<<"-", "1", " ", ".", ".", " ", "3">>,
     <<"0", ".", ".", "(", "2", "*", "*", "2", ")", "-", "1">>,
     <<"-", "(", "2", "*", "*", "2", ")", " ", ".", ".", " ", "+", "3">>,
     <<"0", ".", ".", ")", "(">>,
     <<"0", ".", ".", "(", "3">>}

\* The slices given to Slice2 (the second is the slice of TestSlices).
NumsInputs ==
    {<<1 * Den, 2 * Den>>, <<1 * Den, 2 * Den, 3 * Den, 4 * Den>>}

\* The expressions given to eval, each followed by 0..MaxTilde "~".
EvalExprs ==
    {<<>>,
     <<" ">>,
     <<"3">>,
     <<"2", ".", "5">>,
     <<"-", "3">>,
     <<"1", "0", "*", "*", "2">>,
     <<"-", "2", "*", "*", "2">>,
     <<"1", "+", "2">>,
     <<"5", "-", "2">>,
     <<"x">>,
     <<"(", "2", "*", "*", "2", ")", "-", "1">>,
     <<")", "(">>}

\* Expressions of two operators over the literals 0..MaxOperand, and two
\* chains of one operator.
PlusPower(a, b, c) == Lit(a) \o <<"+">> \o Lit(b) \o <<"*", "*">> \o Lit(c)

PowerPlus(a, b, c) == Lit(a) \o <<"*", "*">> \o Lit(b) \o <<"+">> \o Lit(c)

MinusPower(a, b) == <<"-">> \o Lit(a) \o <<"*", "*">> \o Lit(b)

OperatorExprs ==
    {PlusPower(a, b, c) : a \in 0..MaxOperand, b \in 0..MaxOperand,
                          c \in 0..MaxOperand}
        \cup {PowerPlus(a, b, c) : a \in 0..MaxOperand, b \in 0..MaxOperand,
                                   c \in 0..MaxOperand}
        \cup {MinusPower(a, b) : a \in 0..MaxOperand, b \in 0..MaxOperand}
        \cup {<<"5", "-", "2", "-", "1">>,
              <<"2", "*", "*", "3", "*", "*", "2">>}

RECURSIVE Tildes(_)
Tildes(k) == IF k = 0 THEN <<>> ELSE <<"~">> \o Tildes(k - 1)

\* The range expressions of the engine specification: every bracket
\* combination around bounds 0..MaxRight in either order (equal bounds and
\* from > to included), interval and math style, with no step and with a zero,
\* a negative, a fractional and a larger step.
EngineBounds == {Lit(n) : n \in 0..MaxRight}

EngineTails ==
    {<<>>} \cup {StepSuffix(st) :
                    st \in {<<"0">>, <<"-", "1">>, <<"0", ".", "5">>, <<"2">>}}

EngineExprs ==
    {Body(o, l, sp, rt, c) \o t :
        o \in Opens, l \in EngineBounds, sp \in {<<".", ".">>, <<",">>},
        rt \in EngineBounds, c \in Closes, t \in EngineTails}

\* The values Find and Has are asked for (1 and 2.25, in units) and the
\* thresholds (1/8 and 1.5, in half units).
FindQueries == {1 * Den, 2 * Den + 1}

FindThresholds == {1, 3 * Den}

\* The values membership is asked of, in units: every multiple of 1/Den from
\* -2 to one above the largest enumerated bound.
Queries == (-2 * Den)..((MaxRight + 1) * Den)

\* ------------------------------------------------------------ state machine

VARIABLES
    pc,     \* "start", "ready" (a Range was returned), "failed" (a nil
            \* Range was returned), "done" (a function that returns no
            \* Range returned) or "panicked" (the call did not return)
    expr,   \* the range expression given to the parser
    ada,    \* the parser's mode
    err,    \* the error the parser returned ("" is nil)
    rng,    \* the Range the parser returned
    op,     \* the last operation called
    arg,    \* its argument
    res     \* its result

vars == <<pc, expr, ada, err, rng, op, arg, res>>

Init ==
    /\ pc = "start"
    /\ expr = <<>>
    /\ ada = FALSE
    /\ err = ""
    /\ rng = NoRange
    /\ op = "none"
    /\ arg = 0
    /\ res = 0

Parsed(e, mode, p) ==
    /\ expr' = e
    /\ ada' = mode
    /\ err' = IF p.err = "panic" THEN "" ELSE p.err
    /\ rng' = p.r
    /\ pc' = IF p.err = "panic" THEN "panicked"
             ELSE IF p.nil THEN "failed" ELSE "ready"
    /\ op' = IF mode THEN "NewAda2" ELSE "New2"
    /\ arg' = 0
    /\ res' = 0

CallNew2 == pc = "start" /\ \E e \in Exprs : Parsed(e, FALSE, New2(e))

CallNewAda2 == pc = "start" /\ \E e \in AdaExprs : Parsed(e, TRUE, NewAda2(e))

\* A call that would leave the descriptor's from moved by one step.
ReturnsAdvanced(name, a, v) ==
    /\ op' = name
    /\ arg' = a
    /\ res' = v
    /\ rng' = [rng EXCEPT !.from = rng.from + rng.step]
    /\ UNCHANGED <<pc, expr, ada, err>>

Returns(name, a, v) ==
    /\ op' = name
    /\ arg' = a
    /\ res' = v
    /\ UNCHANGED <<pc, expr, ada, err, rng>>

CallAll == pc = "ready" /\ Returns("All", 0, All(rng))

CallValid == pc = "ready" /\ \E x \in Queries : Returns("Valid", x, Valid(rng, x))

CallLen == pc = "ready" /\ Returns("Len", 0, RangeLen(rng))

CallBits == pc = "ready" /\ \E b \in Bits(rng) : Returns("Bits", 0, b)

CallTake ==
    pc = "ready" /\ \E n \in 0..MaxTake : Returns("Take", n, Take(rng, n))

CallString == pc = "ready" /\ Returns("String", 0, String(rng))

\* Slice2 parses the expression itself: no Range is left behind.
Sliced(nums, e, s) ==
    /\ pc' = IF s.panic THEN "panicked" ELSE "done"
    /\ expr' = e
    /\ ada' = FALSE
    /\ err' = s.err
    /\ rng' = NoRange
    /\ op' = "Slice2"
    /\ arg' = nums
    /\ res' = s.selection

CallSlice2 ==
    /\ pc = "start"
    /\ \E nums \in NumsInputs, e \in Exprs : Sliced(nums, e, Slice2(nums, e))

\* eval of an expression followed by k "~"; arg records k.
Evaluated(e, k, mode, v) ==
    /\ pc' = IF v.err = "panic" THEN "panicked" ELSE "done"
    /\ expr' = e
    /\ ada' = mode
    /\ err' = IF v.err = "panic" THEN "" ELSE v.err
    /\ rng' = NoRange
    /\ op' = "eval"
    /\ arg' = k
    /\ res' = v.val

CallEval ==
    /\ pc = "start"
    /\ \E e \in EvalExprs \cup OperatorExprs, k \in 0..MaxTilde,
          mode \in BOOLEAN :
         Evaluated(e \o Tildes(k), k, mode, eval(e \o Tildes(k), mode))

\* ------------------------------------------- the engine, loops step by step

CallEngineNew2 ==
    pc = "start" /\ \E e \in EngineExprs : Parsed(e, FALSE, New2(e))

CallFind ==
    /\ pc = "ready"
    /\ \E x \in FindQueries, t \in FindThresholds :
         Returns("Find", <<x, t>>, Find(rng, x, t))

CallHas ==
    /\ pc = "ready"
    /\ \E x \in FindQueries, t \in FindThresholds :
         Returns("Has", <<x, t>>, Has(rng, x, t))

CallSum == pc = "ready" /\ Returns("Sum", 0, Sum(rng))

CallJoin ==
    /\ pc = "ready"
    /\ \E digits \in {0, 2} :
         Returns("Join", digits, Join(rng, <<",">>, digits))

\* The state of a running loop: op is the method, arg.x its cursor, arg.n the
\* n of ForN or the call on which the visitor of ForEachWithBreak returns
\* true, and res the values the visitor was called with so far.
Looping(name, x, n, visited, returns) ==
    /\ op' = name
    /\ arg' = [x |-> x, n |-> n]
    /\ res' = visited
    /\ pc' = IF returns THEN "ready" ELSE "loop"
    /\ UNCHANGED <<expr, ada, err, rng>>

\* ForEach, ForEachWithBreak or ForN up to its loop: the visit of from when
\* the start is inclusive, and "x += r.step".
LoopEnter ==
    /\ pc = "ready"
    /\ \E name \in {"ForEach", "ForEachWithBreak", "ForN"}, n \in 0..MaxTake :
         /\ name = "ForEach" => n = 0
         /\ name = "ForEachWithBreak" => n <= MaxBreak
         /\ IF IsSet(rng.rangeType, RANGE_INCLUDE_START)
            THEN IF Stops(name, n, <<rng.from>>)
                 THEN Looping(name, rng.from, n, <<rng.from>>, TRUE)
                 ELSE Looping(name, rng.from + rng.step, n, <<rng.from>>,
                              FALSE)
            ELSE Looping(name, rng.from + rng.step, n, <<>>, FALSE)

\* One turn of the loop: the visit of the cursor, the return when the visitor
\* or the counter says so, and "x += r.step".
LoopVisit ==
    /\ pc = "loop"
    /\ InLoop(rng, arg.x)
    /\ Len(res) < MaxCalls
    /\ IF Stops(op, arg.n, Append(res, arg.x))
       THEN Looping(op, arg.x, arg.n, Append(res, arg.x), TRUE)
       ELSE Looping(op, arg.x + rng.step, arg.n, Append(res, arg.x), FALSE)

\* The loop is over: the visit of to when the stop is inclusive, and the
\* return.
LoopLeave ==
    /\ pc = "loop"
    /\ ~InLoop(rng, arg.x)
    /\ Looping(op, arg.x, arg.n,
               IF IsSet(rng.rangeType, RANGE_INCLUDE_STOP)
               THEN Append(res, rng.to) ELSE res,
               TRUE)

EngineNext ==
    \/ CallEngineNew2
    \/ CallAll
    \/ CallTake
    \/ CallLen
    \/ CallBits
    \/ CallString
    \/ CallFind
    \/ CallHas
    \/ CallSum
    \/ CallJoin
    \/ LoopEnter
    \/ LoopVisit
    \/ LoopLeave

EngineSpec == Init /\ [][EngineNext]_vars

\* The loops alone, on a descriptor that New2 has returned and on which no
\* method has run yet.
LoopInit ==
    /\ pc = "ready"
    /\ expr \in EngineExprs
    /\ ada = FALSE
    /\ err = New2(expr).err
    /\ ~New2(expr).nil
    /\ rng = New2(expr).r
    /\ op = "New2"
    /\ arg = [x |-> 0, n |-> 0]
    /\ res = <<>>

LoopNext ==
    \/ LoopEnter
    \/ LoopVisit
    \/ LoopLeave

\* A call that is running keeps running: the loop takes its next turn or
\* leaves.
LoopSpec ==
    LoopInit /\ [][LoopNext]_vars /\ WF_vars(LoopVisit) /\ WF_vars(LoopLeave)

\* --------------------------------------------------- the parser and queries

Next ==
    \/ CallNew2
    \/ CallNewAda2
    \/ CallAll
    \/ CallValid
    \/ CallLen
    \/ CallBits
    \/ CallTake
    \/ CallString
    \/ CallSlice2
    \/ CallEval

Spec == Init /\ [][Next]_vars

\* ------------------------------------------------------------------ claims

\* The integers a, a+1, ..., b as values (the empty sequence when b < a).
IntInterval(a, b) == [i \in 1..(b - a + 1) |-> (a + i - 1) * Den]

\* v lies strictly between from and to on the side the step's sign gives.
StrictlyBetween(r, v) ==
    \/ r.step > 0 /\ v < r.to /\ v > r.from
    \/ r.step < 0 /\ v > r.to /\ v < r.from

\* The number of leading multiples from + k*step, k = 1, 2, ..., that all lie
\* strictly between the bounds.
SteppedCount(r) ==
    Cardinality({k \in 1..abs(r.to - r.from) :
                    \A j \in 1..k : StrictlyBetween(r, r.from + j * r.step)})

ExpectedSequence(r) ==
    (IF "INCLUDE_START" \in r.rangeType THEN <<r.from>> ELSE <<>>)
        \o [k \in 1..SteppedCount(r) |-> r.from + k * r.step]
        \o (IF "INCLUDE_STOP" \in r.rangeType THEN <<r.to>> ELSE <<>>)

C2_InclusiveIntegerLength ==
    \A a \in -1..MaxLeft, b \in 0..MaxRight :
        (a <= b /\ expr = Body(<<"[">>, Lit(a), <<",">>, Lit(b), <<"]">>)
            /\ pc = "ready") =>
            /\ op = "Len" => res = b - a + 1
            /\ op = "All" => res = IntInterval(a, b)

\* C3: for integers a < b and the default step, "(a,b)" iterates a+1..b-1,
\* "a..b" a..b, "a..b)" a..b-1, "a:b" a..b-1, "[a:b]" and "a:b]" a..b.
C3_StyleDefaults ==
    \A a \in -1..MaxLeft, b \in 0..MaxRight :
        LET Is(o, sp, c) == expr = Body(o, Lit(a), sp, Lit(b), c)
            Yields(o, sp, c, lo, hi) ==
                Is(o, sp, c) =>
                    /\ pc # "failed"
                    /\ op = "All" => res = IntInterval(lo, hi)
        IN  (a < b /\ ~ada) =>
                /\ Yields(<<"(">>, <<",">>, <<")">>, a + 1, b - 1)
                /\ Yields(<<>>, <<".", ".">>, <<>>, a, b)
                /\ Yields(<<>>, <<".", ".">>, <<")">>, a, b - 1)
                /\ Yields(<<>>, <<":">>, <<>>, a, b - 1)
                /\ Yields(<<"[">>, <<":">>, <<"]">>, a, b)
                /\ Yields(<<>>, <<":">>, <<"]">>, a, b)

\* C3 witness: "0:3" iterated gives 0, 1, 2.
C3_Witness ==
    /\ expr = <<"0", ":", "3">>
    /\ op = "All"
    /\ res = <<0, 1 * Den, 2 * Den>>

\* The step part of an enumerated expression: none or a " step " suffix.
StepParts == {<<>>} \cup {StepSuffix(st) : st \in StepExprs}

\* C4 (as claimed): "a,b" without markers iterates and validates as "[a,b]"
\* and as "a..b" do, for any step.
C4_MathStyleDefaultsInclusive ==
    \A l \in LeftExprs, rt \in RightExprs, sfx \in StepParts :
        (expr = Body(<<>>, l, <<",">>, rt, <<>>) \o sfx /\ pc = "ready") =>
            LET bracketed == New2(Body(<<"[">>, l, <<",">>, rt, <<"]">>) \o sfx).r
                interval  == New2(Body(<<>>, l, <<".", ".">>, rt, <<>>) \o sfx).r
            IN  /\ op = "All" => res = All(bracketed) /\ res = All(interval)
                /\ op = "Valid" =>
                      res = Valid(bracketed, arg) /\ res = Valid(interval, arg)

StartExclusive(r) ==
    "EXCLUDE_START" \in r.rangeType /\ "INCLUDE_START" \notin r.rangeType

StartInclusive(r) ==
    "INCLUDE_START" \in r.rangeType /\ "EXCLUDE_START" \notin r.rangeType

StopExclusive(r) ==
    "EXCLUDE_STOP" \in r.rangeType /\ "INCLUDE_STOP" \notin r.rangeType

StopInclusive(r) ==
    "INCLUDE_STOP" \in r.rangeType /\ "EXCLUDE_STOP" \notin r.rangeType

Occurs(c) == \E i \in 1..Len(expr) : expr[i] = c

\* C5 (as claimed): in every separator style an explicit marker decides its
\* side: "(" start-exclusive, ")" stop-exclusive, "[" start-inclusive, "]"
\* stop-inclusive; and "(0:6:2)" iterates exactly 2, 4.
C5_ExplicitMarkerWins ==
    (pc = "ready" /\ ~ada) =>
        /\ Occurs("(") => StartExclusive(rng)
        /\ Occurs(")") => StopExclusive(rng)
        /\ Occurs("[") => StartInclusive(rng)
        /\ Occurs("]") => StopInclusive(rng)
        /\ (expr = <<"(", "0", ":", "6", ":", "2", ")">> /\ op = "All") =>
               res = <<2 * Den, 4 * Den>>

\* C6 (as claimed): every value All yields is from + k*step for an integer
\* k >= 0; "[1:6:2]" yields 1, 3, 5 and "[4:2:-3]" yields 4.
C6_ValuesAreStepped ==
    (pc = "ready" /\ op = "All") =>
        /\ \A i \in 1..Len(res) :
              \E k \in 0..abs(rng.to - rng.from) :
                  res[i] = rng.from + k * rng.step
        /\ expr = <<"[", "1", ":", "6", ":", "2", "]">> =>
              res = <<1 * Den, 3 * Den, 5 * Den>>
        /\ expr = <<"[", "4", ":", "2", ":", "-", "3", "]">> =>
              res = <<4 * Den>>

\* The byte-style spellings of the step-1 range over the integers a..b.
ByteStyle(a, b) ==
    {Body(<<>>, Lit(a), <<".", ".">>, Lit(b), <<>>),
     Body(<<"[">>, Lit(a), <<",">>, Lit(b), <<"]">>),
     Body(<<"[">>, Lit(a), <<",">>, Lit(b + 1), <<")">>)}
        \cup (IF a = 0
              THEN {Body(<<>>, <<>>, <<".", ".">>, Lit(b), <<>>),
                    Body(<<>>, <<>>, <<".", ".">>, Lit(b + 1), <<")">>)}
              ELSE {})
        \cup (IF a = 0 /\ b = 3
              THEN {<<".", ".", "2", "*", "*", "2", "~">>}
              ELSE {})

\* C7: for a step-1 range over the integers a..b in a byte-style spelling,
\* Valid(x) is true exactly for the integers a <= x <= b.
C7_ByteStyleMembership ==
    \A a \in -1..MaxLeft, b \in 0..MaxRight :
        (a <= b /\ ~ada /\ expr \in ByteStyle(a, b)) =>
            /\ pc # "failed"
            /\ op = "Valid" =>
                  res = (arg % Den = 0 /\ a * Den <= arg /\ arg <= b * Den)

\* C7 witness: the half-open spelling rejects its stop and a non-integral
\* value asked of it, and accepts the last integer.
C7_Witness ==
    /\ expr = <<"[", "0", ",", "3", ")">>
    /\ op = "Valid"
    /\ arg = 2 * Den
    /\ res = TRUE

\* C8 (as claimed): Valid(x) is true iff the linear search Find(x, half step)
\* finds a value.
C8_HasAgreesWithFind ==
    (pc = "ready" /\ op = "Valid") => res = Find(rng, arg, HalfStep(rng)).found

\* C9 (as claimed): with step # 0 an excluded endpoint is never a member.
C9_ExcludedEndpointNeverMember ==
    (pc = "ready" /\ op = "Valid" /\ rng.step # 0) =>
        /\ ("EXCLUDE_START" \in rng.rangeType /\ arg = rng.from) => res = FALSE
        /\ ("EXCLUDE_STOP" \in rng.rangeType /\ arg = rng.to) => res = FALSE

\* C10 (as claimed): Bits() is the least k with 2^k >= the number of values
\* the range contains, for a range that contains any.
C10_BitsIsCeilLog2OfCount ==
    (pc = "ready" /\ op = "Bits" /\ Len(All(rng)) >= 1) =>
        res = CeilLog2(Len(All(rng)))

\* C11: for every descriptor and every n >= 0, Take(n) is the first
\* min(n, |All()|) elements of All(): never more than n values, and fewer
\* than n when the sequence is exhausted first.
C11_TakeIsPrefixOfAll ==
    op = "Take" =>
        res = SubSeq(All(rng), 1, min(arg, Len(All(rng))))

\* The elements Slice2 is to return: nums[i] for each iterated value whose
\* truncation i satisfies 0 <= i < len(nums), in iteration order.
InBoundsSelection(nums, xs) ==
    LET kept == SelectSeq(xs, LAMBDA x : 0 <= IntOf(x) /\ IntOf(x) < Len(nums))
    IN  [i \in 1..Len(kept) |-> nums[IntOf(kept[i]) + 1]]

\* C12: Slice2(nums, expr) returns, in iteration order, nums[i] for each
\* iterated value whose truncation i satisfies 0 <= i < len(nums); every other
\* iterated value, a negative index included, is skipped without an error and
\* without a panic.
C12_SliceSkipsOutOfRange ==
    (op = "Slice2" /\ New2(expr).err = "") =>
        /\ pc = "done"
        /\ err = ""
        /\ res = InBoundsSelection(arg, All(New2(expr).r))

\* C13: New2, NewAda2 and eval (in both modes) never panic: for every input
\* they return a result or an error.
C13_ParserNeverPanics ==
    op \in {"New2", "NewAda2", "eval"} => pc # "panicked"

\* C14: when NewRange returns an error the returned Range is nil, and when the
\* error is nil the returned Range is not nil and holds from, to, step and an
\* inclusivity decision (an inclusive or an exclusive flag) for each side.
C14_ErrorMeansNoRange ==
    pc \in {"ready", "failed"} =>
        /\ err # "" => pc = "failed"
        /\ err = "" =>
              /\ pc = "ready"
              /\ IsSet(rng.rangeType,
                       RANGE_INCLUDE_START \cup RANGE_EXCLUDE_START)
              /\ IsSet(rng.rangeType,
                       RANGE_INCLUDE_STOP \cup RANGE_EXCLUDE_STOP)

\* The text of a range expression before its " step " suffix, the text after
\* it, and the contents: the text before the suffix without blanks and
\* markers (in algebraic mode the parentheses are no markers).
BeforeStep(e) ==
    IF Contains(e, StepSuffix(<<>>))
    THEN SubSeq(e, 1, Index(e, StepSuffix(<<>>)) - 1) ELSE e

AfterStep(e) ==
    IF Contains(e, StepSuffix(<<>>))
    THEN SubSeq(e, Index(e, StepSuffix(<<>>)) + Len(StepSuffix(<<>>)), Len(e))
    ELSE <<>>

Stripped(e, mode) ==
    SelectSeq(BeforeStep(e),
              LAMBDA c : /\ ~IsSpace(c)
                         /\ c \notin {"[", "]"}
                         /\ mode \/ c \notin {"(", ")"})

CharCount(s, c) == Cardinality({i \in 1..Len(s) : s[i] = c})

Marked(c) == \E i \in 1..Len(BeforeStep(expr)) : BeforeStep(expr)[i] = c

\* C15: NewRange returns ErrRangeSyntax exactly when the contents hold neither
\* exactly one "..", nor exactly one ",", nor one or two ":"; the patterns are
\* tried in the order "..", ",", ":": a parsed range with one ".." has the
\* interval defaults, a third ":" field is never read as a step when there is
\* one ",", and the slice defaults apply only without one ".." or one ",".
C15_SyntaxErrorIffNoPattern ==
    pc \in {"ready", "failed"} =>
        LET c == Stripped(expr, ada)
            dotdots == Count(c, <<".", ".">>)
            commas == CharCount(c, ",")
            colons == CharCount(c, ":")
        IN  /\ err = "INVALID RANGE SYNTAX"
                  <=> (dotdots # 1 /\ commas # 1 /\ colons \notin {1, 2})
            /\ (dotdots = 1 /\ pc = "ready" /\ ~ada) =>
                  /\ ~Marked("(") => IsSet(rng.rangeType, RANGE_INCLUDE_START)
                  /\ ~Marked(")") => IsSet(rng.rangeType, RANGE_INCLUDE_STOP)
            /\ (dotdots # 1 /\ commas = 1 /\ AfterStep(expr) = <<>>) =>
                  err # "INVALID STEP SIZE"
            /\ (dotdots # 1 /\ commas # 1 /\ pc = "ready" /\ ~ada
                /\ ~Marked("]")) =>
                  IsSet(rng.rangeType, RANGE_EXCLUDE_STOP)

C15_Witness ==
    /\ op = "New2"
    /\ pc = "failed"
    /\ err = "INVALID RANGE SYNTAX"
    /\ expr = <<"1", ".", ".", "2", ".", ".", "3">>

\* The enumerated expressions with an empty left and a non-empty right bound,
\* and those with an empty right bound, in every style.
StepTails == {<<>>} \cup {StepSuffix(st) : st \in StepExprs}

EmptyLeftExprs ==
    {Body(o, <<>>, sp, rt, c) \o t :
        o \in Opens, sp \in Seps, rt \in RightExprs \ {<<>>}, c \in Closes,
        t \in StepTails}
    \cup {o \o <<":">> \o rt \o <<":">> \o st \o c :
            o \in Opens, rt \in RightExprs \ {<<>>}, st \in StepExprs,
            c \in Closes}

EmptyRightExprs ==
    {Body(o, l, sp, <<>>, c) \o t :
        o \in Opens, l \in LeftExprs, sp \in Seps, c \in Closes,
        t \in StepTails}
    \cup {o \o l \o <<":", ":">> \o st \o c :
            o \in Opens, l \in LeftExprs, st \in StepExprs, c \in Closes}

\* C16: in every separator style an empty left bound parses as from = 0
\* without error, and an empty right bound (with or without a left bound)
\* returns ErrMissingRange and no descriptor.
C16_EmptyBounds ==
    (pc \in {"ready", "failed"} /\ ~ada) =>
        /\ expr \in EmptyLeftExprs =>
              pc = "ready" /\ err = "" /\ rng.from = 0
        /\ expr \in EmptyRightExprs =>
              pc = "failed" /\ err = "MISSING RANGE VALUES"

C16_Witness ==
    /\ op = "New2"
    /\ expr = <<"1", ":">>
    /\ pc = "failed"
    /\ err = "MISSING RANGE VALUES"

\* The third ":" field of a two-colon slice expression.
IsTwoColon(e, mode) ==
    LET c == Stripped(e, mode)
    IN  /\ Count(c, <<".", ".">>) # 1
        /\ CharCount(c, ",") # 1
        /\ CharCount(c, ":") = 2

ThirdField(e, mode) == SplitN(Stripped(e, mode), <<":">>, 3)[3]

\* C17 (as amended): the step of a parsed range is the value of the text after
\* " step " when that text is not empty; otherwise the value of the third
\* field of a two-colon slice expression when that field is not empty;
\* otherwise 1.  With both, the suffix is used.
C17_StepSource ==
    pc = "ready" =>
        rng.step =
            IF AfterStep(expr) # <<>> THEN eval(AfterStep(expr), ada).val
            ELSE IF IsTwoColon(expr, ada) /\ ThirdField(expr, ada) # <<>>
            THEN eval(ThirdField(expr, ada), ada).val
            ELSE 1 * Den

C17_Witness ==
    /\ pc = "ready"
    /\ expr = <<"1", ":", "3", ":", "2", " ", "s", "t", "e", "p", " ", "1">>
    /\ rng.step = 1 * Den

\* C17 (as stated): the step is the value of the " step " suffix if one is
\* present, otherwise the third field of a two-colon slice expression,
\* otherwise 1.
C17_StepSourceAsStated ==
    pc = "ready" =>
        rng.step =
            IF Contains(expr, StepSuffix(<<>>))
            THEN eval(AfterStep(expr), ada).val
            ELSE IF IsTwoColon(expr, ada)
            THEN eval(ThirdField(expr, ada), ada).val
            ELSE 1 * Den

\* The expression eval was given without the arg trailing "~" appended to it.
EvalBase == SubSeq(expr, 1, Len(expr) - arg)

C19_NoSubtractionInDefaultMode ==
    ~ada =>
        /\ (op = "eval" /\ expr # <<>> /\ Contains(Tail(expr), <<"-">>)) =>
              err = "INVALID VALUE"
        /\ (pc \in {"ready", "failed"}
            /\ expr = <<"0", ".", ".", "5", "-", "2">>) => pc = "failed"

\* C20: String() opens with "[" exactly when iteration emits from (the
\* inclusive start flag ForEach tests) and with "(" otherwise, closes the
\* bounds with "]" exactly when iteration emits to and with ")" otherwise, and
\* ends with "integer range" exactly when |step| = 1.
C20_StringReflectsFlags ==
    op = "String" =>
        LET close == res[Index(res, <<",", " ">>) + 2
                             + Len(FormatFloat(rng.to))]
        IN  /\ Head(res) = (IF IsSet(rng.rangeType, RANGE_INCLUDE_START)
                            THEN "[" ELSE "(")
            /\ close = (IF IsSet(rng.rangeType, RANGE_INCLUDE_STOP)
                        THEN "]" ELSE ")")
            /\ HasSuffix(res, <<"i", "n", "t", "e", "g", "e", "r", " ",
                                "r", "a", "n", "g", "e">>)
                  <=> abs(rng.step) = 1 * Den

EndsOf(r) ==
    (IF IsSet(r.rangeType, RANGE_INCLUDE_START) THEN {r.from} ELSE {})
        \cup (IF IsSet(r.rangeType, RANGE_INCLUDE_STOP) THEN {r.to} ELSE {})

C23_BreakStopsAtFirstTrue ==
    op = "ForEachWithBreak" =>
        /\ Len(res) <= Len(ForEach(rng))
        /\ res = SubSeq(ForEach(rng), 1, Len(res))
        /\ arg.n > 0 => Len(res) <= arg.n
        /\ pc = "ready" =>
              res = IF arg.n > 0 /\ arg.n <= Len(ForEach(rng))
                    THEN SubSeq(ForEach(rng), 1, arg.n)
                    ELSE ForEach(rng)

\* ForEachWithBreak has returned on the second call of its visitor, with
\* values left unvisited.
C23_Witness ==
    /\ pc = "ready"
    /\ op = "ForEachWithBreak"
    /\ arg.n = 2
    /\ Len(res) = 2
    /\ Len(ForEach(rng)) > 2

\* The positions of the iteration sequence of r whose value is nearer to x
\* than the threshold (x in units, the threshold in half units).
Matches(r, x, threshold) ==
    {i \in 1..Len(ForEach(r)) : 2 * abs(x - ForEach(r)[i]) < threshold}

\* C24: Find(x, threshold) reports found exactly when some value of the
\* iteration sequence is nearer to x than the threshold, and then returns the
\* first such value in iteration order; with no such value it returns
\* (false, -1).
C24_FindFirstMatch ==
    op = "Find" =>
        /\ res.found <=> Matches(rng, arg[1], arg[2]) # {}
        /\ res.found =>
              \E i \in Matches(rng, arg[1], arg[2]) :
                  /\ res.value = ForEach(rng)[i]
                  /\ \A j \in Matches(rng, arg[1], arg[2]) : i <= j
        /\ ~res.found => res.value = -1 * Den

\* Find has returned a value that is neither the value asked for nor the
\* only one within the threshold.
C24_Witness ==
    /\ op = "Find"
    /\ res.found
    /\ res.value # arg[1]
    /\ Cardinality(Matches(rng, arg[1], arg[2])) > 1

\* C25: for a descriptor whose iteration is empty, Len returns 0 and Bits
\* returns 0.
C25_EmptyRangeHasLenAndBitsZero ==
    (op \in {"Len", "Bits"} /\ ForEach(rng) = <<>>) => res = 0

\* C26: in both modes, for literals a, b, c, "a+b**c" evaluates to (a+b)^c
\* and "a**b+c" to a^(b+c): "**" is looked for before "+" and splits the
\* expression where it first occurs; and "-a**b" evaluates to -(a^b): the
\* leading "-" is taken off before any other rule.
C26_PowerBeforePlus ==
    (op = "eval" /\ arg = 0) =>
        \A a \in 0..MaxOperand, b \in 0..MaxOperand :
            /\ \A c \in 0..MaxOperand :
                  /\ expr = PlusPower(a, b, c) =>
                        /\ pc = "done"
                        /\ err = ""
                        /\ res = IntPow(a + b, c) * Den
                  /\ expr = PowerPlus(a, b, c) =>
                        /\ pc = "done"
                        /\ err = ""
                        /\ res = IntPow(a, b + c) * Den
            /\ expr = MinusPower(a, b) =>
                  /\ pc = "done"
                  /\ err = ""
                  /\ res = -(IntPow(a, b) * Den)

\* "1+1**2" has been evaluated to 4, in Ada mode.
C26_Witness ==
    /\ op = "eval"
    /\ ada
    /\ expr = PlusPower(1, 1, 2)
    /\ res = 4 * Den

\* C27: in Ada mode the binary operators associate to the left: "5-2-1"
\* evaluates to (5-2)-1 = 2 and "2**3**2" to (2^3)^2 = 64.
C27_LeftAssociative ==
    (op = "eval" /\ ada /\ arg = 0) =>
        /\ expr = <<"5", "-", "2", "-", "1">> =>
              err = "" /\ res = (5 - 2 - 1) * Den
        /\ expr = <<"2", "*", "*", "3", "*", "*", "2">> =>
              err = "" /\ res = IntPow(IntPow(2, 3), 2) * Den

\* The last character of s that is one of cs, "" when s has none.
LastOf(s, cs) ==
    IF \A i \in 1..Len(s) : s[i] \notin cs THEN ""
    ELSE s[CHOOSE i \in 1..Len(s) :
               s[i] \in cs /\ \A j \in (i + 1)..Len(s) : s[j] \notin cs]

\* The markers of the start and of the stop side: the parentheses are markers
\* in default mode only.
StartMarkers == IF ada THEN {"["} ELSE {"[", "("}

StopMarkers == IF ada THEN {"]"} ELSE {"]", ")"}

\* C28: a range that was returned never has the inclusive and the exclusive
\* flag of one side both set, and on a side with markers the last marker
\* scanned decides: inclusive after "[" or "]", exclusive after "(" or ")".
C28_LastMarkerDecides ==
    pc = "ready" =>
        /\ ~(/\ IsSet(rng.rangeType, RANGE_INCLUDE_START)
             /\ IsSet(rng.rangeType, RANGE_EXCLUDE_START))
        /\ ~(/\ IsSet(rng.rangeType, RANGE_INCLUDE_STOP)
             /\ IsSet(rng.rangeType, RANGE_EXCLUDE_STOP))
        /\ LastOf(BeforeStep(expr), StartMarkers) = "[" =>
              IsSet(rng.rangeType, RANGE_INCLUDE_START)
        /\ LastOf(BeforeStep(expr), StartMarkers) = "(" =>
              IsSet(rng.rangeType, RANGE_EXCLUDE_START)
        /\ LastOf(BeforeStep(expr), StopMarkers) = "]" =>
              IsSet(rng.rangeType, RANGE_INCLUDE_STOP)
        /\ LastOf(BeforeStep(expr), StopMarkers) = ")" =>
              IsSet(rng.rangeType, RANGE_EXCLUDE_STOP)

\* C29: every value ForEach, ForEachWithBreak and ForN call the visitor with,
\* at any moment of the call, and every value All and Take return, lies
\* between the bounds: min(from, to) <= v <= max(from, to).
C29_ValuesWithinBounds ==
    op \in {"ForEach", "ForEachWithBreak", "ForN", "All", "Take"} =>
        \A i \in 1..Len(res) :
            /\ min(rng.from, rng.to) <= res[i]
            /\ res[i] <= max(rng.from, rng.to)

\* ForN has visited a value strictly between the bounds of a range that
\* descends.
C29_Witness ==
    /\ op = "ForN"
    /\ rng.from > rng.to
    /\ rng.step < 0
    /\ \E i \in 1..Len(res) : rng.to < res[i] /\ res[i] < rng.from

\* C30: the sequence All returns is strictly increasing when the step is
\* positive and strictly decreasing when it is negative, so that no value
\* occurs twice.
C30_StrictlyMonotonic ==
    op = "All" =>
        \A i \in 1..(Len(res) - 1) :
            /\ rng.step > 0 => res[i] < res[i + 1]
            /\ rng.step < 0 => res[i] > res[i + 1]

====
